---- MODULE Spec2Model ----
(***************************************************************************)
(* Model of PostgreSQLDriver (src/src/drivers/PostgreSQLDriver.ts): the    *)
(* driver object (pool, schema, dbType), the table it provisions in the    *)
(* database, and its document operations in document and hybrid mode.      *)
(***************************************************************************)
EXTENDS Integers, Sequences, FiniteSets, TLC

\* ------------------------------------------------------------------ bounds
\* rows the table may hold, ticks of the wall clock, clients checked out of
\* the pool at once
MaxRows == 2
MaxClock == 1
MaxClients == 1
\* pools created by new Pool(...) and not ended
MaxPools == 2

\* ------------------------------------------------------------------ values
\* Every JavaScript / SQL value is a pair <<kind, n>>.
Null == <<"null", 0>>
Num(n) == <<"num", n>>
IdStr(n) == <<"id", n>>
\* Date.prototype.toISOString(): a string
Iso(t) == <<"iso", t>>
\* a Date object (what pg returns for a TIMESTAMP column)
DateV(t) == <<"date", t>>
\* a nested object (a JSONB column read as a field)
ObjVal == <<"obj", 0>>
\* the value of a property that an object does not have
Undefined == <<"undefined", 0>>
TimeOf(v) == v[2]
IsObject(v) == v[1] \in {"date", "obj"}

Vals == {Num(1), Num(2)}
\* what generateId may return; _id is the primary key, so an id is used by
\* one row at most
Ids == {IdStr(1), IdStr(2)}
ReservedKeys == {"_id", "_createdAt", "_updatedAt"}
\* the schema definition handed to setSchema: one declared field
SchemaFields == {"a"}
\* names every plain object inherits from Object.prototype
InheritedKeys == {"constructor"}

EmptyDoc == [k \in {} |-> Null]
Override(d, p) ==
  [k \in (DOMAIN d) \cup (DOMAIN p) |-> IF k \in DOMAIN p THEN p[k] ELSE d[k]]
Restrict(d, S) == [k \in S |-> d[k]]
\* record[key]
Field(d, k) == IF k \in DOMAIN d THEN d[k] ELSE Undefined

\* JSON.stringify followed by the JSONB column's parse: a Date becomes its
\* ISO string, everything else is kept
JsonValue(v) == IF v[1] = "date" THEN Iso(v[2]) ELSE v
JsonRoundTrip(d) == [k \in DOMAIN d |-> JsonValue(d[k])]

\* ------------------------------------------------------------ schema mapper
\* `key in definition`: own and inherited property names
InDefinition(key) == key \in SchemaFields \cup InheritedKeys

splitData(hasSchema, data) ==
  IF ~hasSchema THEN [schemaData |-> EmptyDoc, extraData |-> data]
  ELSE [schemaData |-> Restrict(data, {k \in DOMAIN data : InDefinition(k)}),
        extraData |-> Restrict(data, {k \in DOMAIN data :
                          ~InDefinition(k) /\ k \notin ReservedKeys})]

\* row = [rest |-> the row without _extras, extras |-> [kind, obj, parses]]:
\* kind is typeof _extras with "null" for null; obj is the object itself, or
\* for a string the object its text denotes; parses says whether JSON.parse
\* accepts the string
\* JSON.parse(_extras) raises a SyntaxError
mergeDataThrows(row) == row.extras.kind = "string" /\ ~row.extras.parses
\* the object mergeData returns when it returns
mergeData(row) ==
  LET extras == IF row.extras.kind = "object" THEN row.extras.obj
                ELSE IF row.extras.kind = "string" THEN row.extras.obj
                ELSE EmptyDoc
  IN Override(row.rest, extras)

\* record[key] !== value: objects are compared by reference, so a Date or a
\* nested object read from a row never equals a criterion's value
matchesQuery(record, query) ==
  \A key \in DOMAIN query :
     /\ ~IsObject(Field(record, key))
     /\ Field(record, key) = query[key]


\* --------------------------------------------------------------- type tags
\* A string is the sequence of its characters.
LowerCase == <<"a", "b", "c", "d", "e", "f", "g", "h", "i", "j", "k", "l", "m", "n", "o", "p", "q", "r", "s", "t", "u", "v", "w", "x", "y", "z">>
UpperCase == <<"A", "B", "C", "D", "E", "F", "G", "H", "I", "J", "K", "L", "M", "N", "O", "P", "Q", "R", "S", "T", "U", "V", "W", "X", "Y", "Z">>
ToUpperChar(c) ==
  IF \E i \in 1..Len(LowerCase) : LowerCase[i] = c
  THEN UpperCase[CHOOSE i \in 1..Len(LowerCase) : LowerCase[i] = c]
  ELSE c
\* String.prototype.toUpperCase
toUpperCase(str) == [i \in 1..Len(str) |-> ToUpperChar(str[i])]
\* String.prototype.includes
includes(str, sub) ==
  \E i \in 0..(Len(str) - Len(sub)) :
    \A j \in 1..Len(sub) : str[i + j] = sub[j]

S_STRING == <<"S", "T", "R", "I", "N", "G">>
S_TEXT == <<"T", "E", "X", "T">>
S_EMAIL == <<"E", "M", "A", "I", "L">>
S_URL == <<"U", "R", "L">>
S_CHAR == <<"C", "H", "A", "R">>
S_UUID == <<"U", "U", "I", "D">>
S_NUMBER == <<"N", "U", "M", "B", "E", "R">>
S_INT == <<"I", "N", "T">>
S_BIGINT == <<"B", "I", "G", "I", "N", "T">>
S_BOOLEAN == <<"B", "O", "O", "L", "E", "A", "N">>
S_DATE == <<"D", "A", "T", "E">>
S_JSON == <<"J", "S", "O", "N">>
S_BLOB == <<"B", "L", "O", "B">>

\* type = [wrapped, tag]: the tag itself, or an object whose .type is the tag
mapHawiahTypeToSQL(type) ==
  LET t == toUpperCase(type.tag)
  IN IF \/ includes(t, S_STRING) \/ includes(t, S_TEXT) \/ includes(t, S_EMAIL)
        \/ includes(t, S_URL) \/ includes(t, S_CHAR) THEN "TEXT"
     ELSE IF includes(t, S_UUID) THEN "UUID"
     ELSE IF includes(t, S_NUMBER)
          THEN IF includes(t, S_INT) THEN "INTEGER"
               ELSE IF includes(t, S_BIGINT) THEN "BIGINT"
               ELSE "REAL"
     ELSE IF includes(t, S_BOOLEAN) THEN "BOOLEAN"
     ELSE IF includes(t, S_DATE) THEN "TIMESTAMP"
     ELSE IF includes(t, S_JSON) THEN "JSONB"
     ELSE IF includes(t, S_BLOB) THEN "BYTEA"
     ELSE "TEXT"

\* ----------------------------------------------------------------- driver
NoPool == "null"
OpenPool == "pool"
\* a guard that tests for undefined instead of null: it never throws
ensureConnectedUndefined(p) == p # "undefined"
\* TRUE when the guard passes, FALSE when it throws
ensureConnected(p) == p # NoPool

\* this.schema && this.dbType === 'sql'
HybridMode(sch, dbt) == sch # "null" /\ dbt = "sql"

\* ---------------------------------------------------------------- database
\* table = [layout, rows]; layout is "none" until CREATE TABLE has run.
\* row = [id, cols, blob, createdAt, updatedAt]: cols are the schema columns
\* (hybrid layout), blob is the _data column (document layout) or the
\* _extras column (hybrid layout).
NoTable == [layout |-> "none", rows |-> <<>>]

Columns(layout) ==
  CASE layout = "doc" -> {"_id", "_data", "_createdAt", "_updatedAt"}
    [] layout = "hybrid" ->
         {"_id", "_extras", "_createdAt", "_updatedAt"} \cup SchemaFields
    [] OTHER -> {}

\* a statement naming `used` columns is accepted by the server
StatementOk(tbl, used) == tbl.layout # "none" /\ used \subseteq Columns(tbl.layout)

\* the row object pg returns for SELECT *
PgRow(r, layout) ==
  IF layout = "hybrid"
  THEN [rest |-> Override(Override([k \in {"_id"} |-> r.id], r.cols),
                          [k \in {"_createdAt", "_updatedAt"} |->
                             IF k = "_createdAt" THEN r.createdAt ELSE r.updatedAt]),
        extras |-> [kind |-> "object", obj |-> r.blob, parses |-> TRUE]]
  ELSE [rest |-> [k \in {"_id", "_data", "_createdAt", "_updatedAt"} |->
                    CASE k = "_id" -> r.id
                      [] k = "_data" -> ObjVal
                      [] k = "_createdAt" -> r.createdAt
                      [] OTHER -> r.updatedAt],
        extras |-> [kind |-> "undefined", obj |-> EmptyDoc, parses |-> TRUE]]

\* ------------------------------------------------------------------- reads
\* get: [ok, recs]; ok is FALSE when the SELECT is rejected by the server
get(tbl, hyb, query) ==
  IF hyb
  THEN IF ~StatementOk(tbl, {})
       THEN [ok |-> FALSE, recs |-> <<>>]
       ELSE LET records == [i \in 1..Len(tbl.rows) |->
                              mergeData(PgRow(tbl.rows[i], tbl.layout))]
            IN [ok |-> TRUE,
                recs |-> IF DOMAIN query = {} THEN records
                         ELSE SelectSeq(records, LAMBDA rec : matchesQuery(rec, query))]
  ELSE IF ~StatementOk(tbl, {"_data"})
       THEN [ok |-> FALSE, recs |-> <<>>]
       ELSE LET allRecords == [i \in 1..Len(tbl.rows) |-> tbl.rows[i].blob]
            IN [ok |-> TRUE,
                recs |-> IF DOMAIN query = {} THEN allRecords
                         ELSE SelectSeq(allRecords, LAMBDA rec : matchesQuery(rec, query))]

\* getOne: [ok, found, rec]
\* (every _id of the model is a non-empty string, so `if (query._id)` is the
\* presence of the key)
getOne(tbl, hyb, query) ==
  IF "_id" \in DOMAIN query
  THEN LET hit == SelectSeq(tbl.rows, LAMBDA r : r.id = query["_id"])
       IN IF hyb
          THEN IF ~StatementOk(tbl, {"_id"})
               THEN [ok |-> FALSE, found |-> FALSE, rec |-> EmptyDoc]
               ELSE IF Len(hit) > 0
                    THEN [ok |-> TRUE, found |-> TRUE,
                          rec |-> mergeData(PgRow(hit[1], tbl.layout))]
                    ELSE [ok |-> TRUE, found |-> FALSE, rec |-> EmptyDoc]
          ELSE IF ~StatementOk(tbl, {"_id", "_data"})
               THEN [ok |-> FALSE, found |-> FALSE, rec |-> EmptyDoc]
               ELSE IF Len(hit) > 0
                    THEN [ok |-> TRUE, found |-> TRUE, rec |-> hit[1].blob]
                    ELSE [ok |-> TRUE, found |-> FALSE, rec |-> EmptyDoc]
  ELSE LET results == get(tbl, hyb, query)
       IN IF ~results.ok
          THEN [ok |-> FALSE, found |-> FALSE, rec |-> EmptyDoc]
          ELSE IF Len(results.recs) > 0
               THEN [ok |-> TRUE, found |-> TRUE, rec |-> results.recs[1]]
               ELSE [ok |-> TRUE, found |-> FALSE, rec |-> EmptyDoc]

\* exists: [ok, value]
exists(tbl, hyb, query) ==
  LET result == getOne(tbl, hyb, query)
  IN [ok |-> result.ok, value |-> result.found]

\* count: [ok, value]
count(tbl, hyb, query) ==
  IF DOMAIN query = {}
  THEN [ok |-> StatementOk(tbl, {}), value |-> Len(tbl.rows)]
  ELSE LET results == get(tbl, hyb, query)
       IN [ok |-> results.ok, value |-> Len(results.recs)]

\* ------------------------------------------------------------------ writes
\* Every handler is an operator from the state before the call (and the call's
\* inputs) to [tbl, status, stmts, ...]: tbl the table afterwards, status
\* "ok" or "dbError" (a rejected promise of pool.query), stmts the number of
\* statements sent. failAt is the position of the statement that the
\* connection fails on (0: none).

\* set(data) with generateId() = id and new Date() = now
set(tbl, hyb, hasSchema, now, data, id, failAt) ==
  LET record == Override(data, [k \in ReservedKeys |->
                    IF k = "_id" THEN id ELSE Iso(now)])
      sp == splitData(hasSchema, record)
      used == IF hyb
              THEN {"_id", "_extras", "_createdAt", "_updatedAt"} \cup DOMAIN sp.schemaData
              ELSE {"_id", "_data", "_createdAt", "_updatedAt"}
      row == IF hyb
             THEN [id |-> id,
                   cols |-> [k \in SchemaFields |->
                               IF k \in DOMAIN sp.schemaData THEN sp.schemaData[k] ELSE Null],
                   blob |-> JsonRoundTrip(sp.extraData),
                   createdAt |-> DateV(now), updatedAt |-> DateV(now)]
             ELSE [id |-> id, cols |-> EmptyDoc, blob |-> JsonRoundTrip(record),
                   createdAt |-> DateV(now), updatedAt |-> DateV(now)]
      accepted == /\ failAt # 1
                  /\ StatementOk(tbl, used)
                  /\ \A i \in 1..Len(tbl.rows) : tbl.rows[i].id # id
  IN IF accepted
     THEN [tbl |-> [tbl EXCEPT !.rows = Append(@, row)], status |-> "ok",
           stmts |-> 1, ret |-> record]
     ELSE [tbl |-> tbl, status |-> "dbError", stmts |-> 1, ret |-> EmptyDoc]

\* an UPDATE that lays the patch over what the row holds when it runs, instead
\* of writing back the record read earlier
updateWriteMerging(tbl, hyb, hasSchema, now, record, data) ==
  LET patch == Override(data, [k \in {"_updatedAt"} |-> Iso(now)])
      sp == splitData(hasSchema, patch)
      hits(r) == "_id" \in DOMAIN record /\ r.id = record["_id"]
      written(r) ==
        IF hyb
        THEN [r EXCEPT !.cols = Override(@, sp.schemaData),
                       !.blob = Override(@, JsonRoundTrip(sp.extraData)),
                       !.updatedAt = DateV(now)]
        ELSE [r EXCEPT !.blob = Override(@, JsonRoundTrip(patch)),
                       !.updatedAt = DateV(now)]
  IN [ok |-> tbl.layout = (IF hyb THEN "hybrid" ELSE "doc"),
      tbl |-> [tbl EXCEPT !.rows = [i \in 1..Len(@) |->
                  IF hits(@[i]) THEN written(@[i]) ELSE @[i]]]]

\* the UPDATE statement of one loop iteration of update: [ok, tbl]
updateWrite(tbl, hyb, hasSchema, now, record, data) ==
  LET updatedRecord == Override(Override(record, data),
                                [k \in {"_updatedAt"} |-> Iso(now)])
      sp == splitData(hasSchema, updatedRecord)
      used == IF hyb
              THEN {"_id", "_extras", "_updatedAt"} \cup DOMAIN sp.schemaData
              ELSE {"_id", "_data", "_updatedAt"}
      hits(r) == "_id" \in DOMAIN record /\ r.id = record["_id"]
      written(r) ==
        IF hyb
        THEN [r EXCEPT !.cols = Override(@, sp.schemaData),
                       !.blob = JsonRoundTrip(sp.extraData),
                       !.updatedAt = DateV(now)]
        ELSE [r EXCEPT !.blob = JsonRoundTrip(updatedRecord),
                       !.updatedAt = DateV(now)]
  IN IF ~StatementOk(tbl, used)
     THEN [ok |-> FALSE, tbl |-> tbl]
     ELSE [ok |-> TRUE,
           tbl |-> [tbl EXCEPT !.rows = [i \in 1..Len(@) |->
                       IF hits(@[i]) THEN written(@[i]) ELSE @[i]]]]

\* the DELETE statement of one loop iteration of delete: [ok, tbl]
deleteWrite(tbl, record) ==
  IF ~StatementOk(tbl, {"_id"})
  THEN [ok |-> FALSE, tbl |-> tbl]
  ELSE [ok |-> TRUE,
        tbl |-> [tbl EXCEPT !.rows = SelectSeq(@, LAMBDA r :
                    ~("_id" \in DOMAIN record /\ r.id = record["_id"]))]]

\* for (const record of records) { await write; count++ } from record i on
RECURSIVE writeLoop(_, _, _, _, _, _, _, _, _)
writeLoop(kind, tbl, hyb, hasSchema, now, records, data, i, failAt) ==
  IF i > Len(records)
  THEN [tbl |-> tbl, status |-> "ok", stmts |-> i, count |-> i - 1, failedWrite |-> 0]
  ELSE LET w == IF kind = "update"
                THEN updateWrite(tbl, hyb, hasSchema, now, records[i], data)
                ELSE deleteWrite(tbl, records[i])
       IN IF failAt = i + 1 \/ ~w.ok
          THEN [tbl |-> tbl, status |-> "dbError", stmts |-> i + 1,
                count |-> i - 1, failedWrite |-> i]
          ELSE writeLoop(kind, w.tbl, hyb, hasSchema, now, records, data, i + 1, failAt)

update(tbl, hyb, hasSchema, now, query, data, failAt) ==
  LET records == get(tbl, hyb, query)
  IN IF failAt = 1 \/ ~records.ok
     THEN [tbl |-> tbl, status |-> "dbError", stmts |-> 1, count |-> 0, failedWrite |-> 0]
     ELSE writeLoop("update", tbl, hyb, hasSchema, now, records.recs, data, 1, failAt)

delete(tbl, hyb, query, failAt) ==
  LET records == get(tbl, hyb, query)
  IN IF failAt = 1 \/ ~records.ok
     THEN [tbl |-> tbl, status |-> "dbError", stmts |-> 1, count |-> 0, failedWrite |-> 0]
     ELSE writeLoop("delete", tbl, hyb, FALSE, 0, records.recs, EmptyDoc, 1, failAt)

\* disconnect: the pool afterwards
disconnect(p) == IF p # NoPool THEN NoPool ELSE p

\* connect: this.pool is assigned first, then three statements are awaited
connect(tbl, hyb, failAt) ==
  LET created == IF tbl.layout = "none"
                 THEN [layout |-> IF hyb THEN "hybrid" ELSE "doc", rows |-> <<>>]
                 ELSE tbl
  IN [pool |-> OpenPool,
      tbl |-> IF failAt = 1 THEN tbl ELSE created,
      status |-> IF failAt \in 1..3 THEN "dbError" ELSE "ok",
      stmts |-> IF failAt \in 1..3 THEN failAt ELSE 3]

\* ------------------------------------------------------------------ inputs
\* documents handed to set: one gives every field, one omits the schema field
DataDocs == {[k \in {"a", "b"} |-> Num(1)], [k \in {"b"} |-> Num(1)]}
\* patches handed to update: one names a plain field, one names reserved fields
Patches == {[k \in {"a"} |-> Num(2)],
            [k \in {"_id", "_createdAt"} |-> IF k = "_id" THEN IdStr(2) ELSE Num(1)]}
\* criteria
Queries == {EmptyDoc, [k \in {"a"} |-> Num(1)], [k \in {"_id"} |-> IdStr(1)],
            [k \in {"_id", "a"} |-> IF k = "_id" THEN IdStr(1) ELSE Num(2)]}
RawStatements == {"SELECT 1"}

\* ------------------------------------------------------------ state machine
VARIABLES pool, schema, dbType, table, clock, held, leaked, last, fn, calls,
          openPools
driverVars == <<pool, schema, dbType, table, clock, held, leaked, last, openPools>>
vars == <<pool, schema, dbType, table, clock, held, leaked, last, fn, calls, openPools>>

\* fn is the call of a helper examined on its own: [name, arg, done, out]
NoCall == [name |-> "none", arg |-> <<>>, done |-> TRUE, out |-> <<>>]

\* calls[c] is the update call of caller c that is suspended at an await:
\* [pc, query, data, records, i, count], the locals of update
Callers == {1, 2}
IdleCall == [pc |-> "idle", query |-> EmptyDoc, data |-> EmptyDoc,
             records |-> <<>>, i |-> 0, count |-> 0]
NoCalls == [c \in Callers |-> IdleCall]

Hyb == HybridMode(schema, dbType)
HasSchema == schema # "null"

\* what the last call did: how it ended and how many statements it sent (the
\* call's name is not kept in the state)
Outcome(op, status, stmts) == [status |-> status, stmts |-> stmts]

DriverInit ==
  /\ pool = NoPool
  /\ schema = "null"
  /\ dbType = "nosql"
  /\ table = NoTable
  /\ clock = 0
  /\ held = 0
  /\ leaked = 0
  /\ last = Outcome("new", "ok", 0)
  /\ openPools = 0

Init == DriverInit /\ fn = NoCall /\ calls = NoCalls

\* the call throws before it touches the pool
Throws(op, status) ==
  /\ last' = Outcome(op, status, 0)
  /\ UNCHANGED <<fn, calls, openPools, pool, schema, dbType, table, clock, held, leaked>>

\* this.ensureConnected(); then this.pool!.query(...): a null pool that gets
\* past the guard is a TypeError
Entry(op) ==
  IF ~ensureConnected(pool) THEN "notConnected"
  ELSE IF pool = NoPool THEN "typeError"
  ELSE "run"

\* a call that only reads: ok says whether its statement was accepted
ReadCall(op, ok, failAt) ==
  IF Entry(op) # "run" THEN Throws(op, Entry(op))
  ELSE /\ last' = Outcome(op, IF failAt = 0 /\ ok THEN "ok" ELSE "dbError", 1)
       /\ UNCHANGED <<fn, calls, openPools, pool, schema, dbType, table, clock, held, leaked>>

\* a call that ends with the table as r.tbl
WriteCall(op, r) ==
  IF Entry(op) # "run" THEN Throws(op, Entry(op))
  ELSE /\ table' = r.tbl
       /\ last' = Outcome(op, r.status, r.stmts)
       /\ UNCHANGED <<fn, calls, openPools, pool, schema, dbType, clock, held, leaked>>

SetSchema ==
  \E s \in {"null", "def"} :
    /\ schema' = s
    /\ dbType' = "sql"
    /\ last' = Outcome("setSchema", "ok", 0)
    /\ UNCHANGED <<fn, calls, openPools, pool, table, clock, held, leaked>>

\* new Pool(...) opens a pool whatever this.pool held before
Connect ==
  \E failAt \in 0..3 :
    LET r == connect(table, Hyb, failAt)
    IN /\ openPools < MaxPools
       /\ pool' = r.pool
       /\ openPools' = openPools + 1
       /\ table' = r.tbl
       /\ last' = Outcome("connect", r.status, r.stmts)
       /\ UNCHANGED <<fn, calls, schema, dbType, clock, held, leaked>>

\* this.pool.end() ends the pool this.pool refers to
Disconnect ==
  /\ pool' = disconnect(pool)
  /\ openPools' = IF pool # NoPool THEN openPools - 1 ELSE openPools
  /\ last' = Outcome("disconnect", "ok", 0)
  /\ UNCHANGED <<fn, calls, schema, dbType, table, clock, held, leaked>>

Set ==
  \E data \in DataDocs, id \in Ids, failAt \in 0..1 :
    /\ Entry("set") = "run" => Len(table.rows) < MaxRows
    /\ WriteCall("set", set(table, Hyb, HasSchema, clock, data, id, failAt))

Get ==
  \E query \in Queries, failAt \in 0..1 :
    ReadCall("get", get(table, Hyb, query).ok, failAt)

GetOne ==
  \E query \in Queries, failAt \in 0..1 :
    ReadCall("getOne", getOne(table, Hyb, query).ok, failAt)

Exists ==
  \E query \in Queries, failAt \in 0..1 :
    ReadCall("exists", exists(table, Hyb, query).ok, failAt)

Count ==
  \E query \in Queries, failAt \in 0..1 :
    ReadCall("count", count(table, Hyb, query).ok, failAt)

Update ==
  \E query \in Queries, data \in Patches, failAt \in 0..(MaxRows + 1) :
    WriteCall("update", update(table, Hyb, HasSchema, clock, query, data, failAt))

Delete ==
  \E query \in Queries, failAt \in 0..(MaxRows + 1) :
    WriteCall("delete", delete(table, Hyb, query, failAt))

ExecuteRaw ==
  \E sql \in RawStatements, failAt \in 0..1 :
    ReadCall("executeRaw", TRUE, failAt)

Clear ==
  \E failAt \in 0..1 :
    WriteCall("clear",
      IF failAt = 0 /\ StatementOk(table, {})
      THEN [tbl |-> [table EXCEPT !.rows = <<>>], status |-> "ok", stmts |-> 1]
      ELSE [tbl |-> table, status |-> "dbError", stmts |-> 1])

Drop ==
  \E failAt \in 0..1 :
    WriteCall("drop",
      IF failAt = 0
      THEN [tbl |-> NoTable, status |-> "ok", stmts |-> 1]
      ELSE [tbl |-> table, status |-> "dbError", stmts |-> 1])

Vacuum ==
  \E failAt \in 0..1 : ReadCall("vacuum", StatementOk(table, {}), failAt)

Analyze ==
  \E failAt \in 0..1 : ReadCall("analyze", StatementOk(table, {}), failAt)

\* pool.connect() checks a client out; BEGIN is sent on it. failAt = 1: the
\* checkout fails; failAt = 2: BEGIN fails and the client is never handed out.
BeginTransaction ==
  \E failAt \in 0..2 :
    IF Entry("beginTransaction") # "run"
    THEN Throws("beginTransaction", Entry("beginTransaction"))
    ELSE /\ held + leaked < MaxClients
         /\ held' = IF failAt = 0 THEN held + 1 ELSE held
         /\ leaked' = IF failAt = 2 THEN leaked + 1 ELSE leaked
         /\ last' = Outcome("beginTransaction",
                            IF failAt = 0 THEN "ok" ELSE "dbError",
                            IF failAt = 1 THEN 0 ELSE 1)
         /\ UNCHANGED <<fn, calls, openPools, pool, schema, dbType, table, clock>>

\* await client.query(...); client.release()
EndTransaction(op) ==
  \E failAt \in 0..1 :
    /\ held > 0
    /\ held' = IF failAt = 0 THEN held - 1 ELSE held
    /\ last' = Outcome(op, IF failAt = 0 THEN "ok" ELSE "dbError", 1)
    /\ UNCHANGED <<fn, calls, openPools, pool, schema, dbType, table, clock, leaked>>

Commit == EndTransaction("commit")
Rollback == EndTransaction("rollback")

\* time passes between two calls; a call reads the clock once (new Date() at
\* millisecond resolution), so two calls may read the same instant
Tick ==
  /\ clock < MaxClock
  /\ clock' = clock + 1
  /\ last' = Outcome("tick", "ok", 0)
  /\ UNCHANGED <<fn, calls, openPools, pool, schema, dbType, table, held, leaked>>

Next ==
  \/ SetSchema \/ Connect \/ Disconnect
  \/ Set \/ Get \/ GetOne \/ Exists \/ Count \/ Update \/ Delete
  \/ ExecuteRaw \/ Clear \/ Drop \/ Vacuum \/ Analyze
  \/ BeginTransaction \/ Commit \/ Rollback
  \/ Tick

Spec == Init /\ [][Next]_vars


\* ------------------------------------------------- helpers on their own
\* schema tags: a word, or two words joined by ":", as written or upper-cased
TagWords == {<<"n", "u", "m", "b", "e", "r">>, <<"b", "i", "g", "i", "n", "t">>, <<"i", "n", "t">>, <<"i", "n", "t", "e", "g", "e", "r">>, <<"s", "t", "r", "i", "n", "g">>, <<"t", "e", "x", "t">>, <<"u", "u", "i", "d">>, <<"b", "o", "o", "l", "e", "a", "n">>, <<"d", "a", "t", "e">>, <<"j", "s", "o", "n">>, <<"b", "l", "o", "b">>, <<"f", "l", "o", "a", "t">>}
Tags == TagWords \cup {w1 \o <<":">> \o w2 : w1, w2 \in TagWords}
TypeInputs == {[wrapped |-> w, tag |-> IF up THEN toUpperCase(t) ELSE t] :
                 w \in BOOLEAN, up \in BOOLEAN, t \in Tags}

InitType ==
  /\ DriverInit
  /\ fn \in {[name |-> "mapHawiahTypeToSQL", arg |-> type, done |-> FALSE, out |-> <<>>] :
               type \in TypeInputs}
  /\ calls = NoCalls

MapType ==
  /\ fn.name = "mapHawiahTypeToSQL"
  /\ ~fn.done
  /\ fn' = [fn EXCEPT !.done = TRUE, !.out = mapHawiahTypeToSQL(fn.arg)]
  /\ UNCHANGED <<driverVars, calls>>

SpecType == InitType /\ [][MapType]_vars

\* documents split in hybrid mode: any fields, declared in the schema or not
SplitKeys == {"a", "b", "c", "constructor"}
SplitDocs == UNION {[S -> Vals] : S \in SUBSET SplitKeys}

InitSplit ==
  /\ DriverInit
  /\ fn \in {[name |-> "splitData", arg |-> data, done |-> FALSE, out |-> <<>>] :
               data \in SplitDocs}
  /\ calls = NoCalls

\* set(data) in hybrid mode on an empty hybrid table, then the row read back:
\* splitData, the INSERT of the split, and mergeData of the row
SplitMerge ==
  /\ fn.name = "splitData"
  /\ ~fn.done
  /\ LET record == Override(fn.arg, [k \in ReservedKeys |->
                       IF k = "_id" THEN IdStr(1) ELSE Iso(0)])
         r == set([layout |-> "hybrid", rows |-> <<>>], TRUE, TRUE, 0, fn.arg, IdStr(1), 0)
         g == getOne(r.tbl, TRUE, [k \in {"_id"} |-> IdStr(1)])
     IN fn' = [fn EXCEPT !.done = TRUE,
                         !.out = [split |-> splitData(TRUE, record),
                                  written |-> r.status = "ok",
                                  merged |-> g.rec]]
  /\ UNCHANGED <<driverVars, calls>>

SpecSplit == InitSplit /\ [][SplitMerge]_vars

\* rows handed to mergeData: typed columns, and an _extras value of any kind
MergeRests == UNION {[S -> Vals] : S \in SUBSET {"a", "b"}}
MergeObjects == UNION {[S -> {Num(2)}] : S \in SUBSET {"a", "b", "c"}}
MergeExtras ==
  {[kind |-> k, obj |-> o, parses |-> TRUE] : k \in {"object", "string"}, o \in MergeObjects}
  \cup {[kind |-> k, obj |-> EmptyDoc, parses |-> k # "string"] :
          k \in {"null", "number", "string", "undefined"}}

InitMerge ==
  /\ DriverInit
  /\ fn \in {[name |-> "mergeData", arg |-> [rest |-> rest, extras |-> extras],
              done |-> FALSE, out |-> <<>>] :
               rest \in MergeRests, extras \in MergeExtras}
  /\ calls = NoCalls

Merge ==
  /\ fn.name = "mergeData"
  /\ ~fn.done
  /\ fn' = [fn EXCEPT !.done = TRUE,
                      !.out = IF mergeDataThrows(fn.arg)
                              THEN [threw |-> TRUE, doc |-> EmptyDoc]
                              ELSE [threw |-> FALSE, doc |-> mergeData(fn.arg)]]
  /\ UNCHANGED <<driverVars, calls>>

SpecMerge == InitMerge /\ [][Merge]_vars

\* --------------------------------------------- update calls in flight
\* Two callers run update on the same driver. A call is suspended at each
\* await (the SELECT of get, every UPDATE of the loop) and the other call, or a
\* set, runs in between; the statements themselves are atomic in the database.
\* the patch of caller c: the two callers patch different fields
PatchOf(c) == [k \in {IF c = 1 THEN "a" ELSE "b"} |-> Num(2)]
ConcQueries == {EmptyDoc, [k \in {"a"} |-> Num(1)]}

\* ensureConnected(); const records = await this.get(query); let count = 0
UpdateGet(c) ==
  /\ calls[c].pc = "idle"
  /\ \E query \in ConcQueries, data \in {PatchOf(c)} :
       LET r == get(table, Hyb, query)
           call == [pc |-> "write", query |-> query, data |-> data,
                    records |-> r.recs, i |-> 1, count |-> 0]
       IN IF Entry("update") # "run"
          THEN /\ calls' = [calls EXCEPT ![c] = [IdleCall EXCEPT !.pc = "threw"]]
               /\ last' = Outcome("update", Entry("update"), 0)
          ELSE IF ~r.ok
          THEN /\ calls' = [calls EXCEPT ![c] = [call EXCEPT !.pc = "threw"]]
               /\ last' = Outcome("update", "dbError", 1)
          ELSE IF Len(r.recs) = 0
          THEN /\ calls' = [calls EXCEPT ![c] = [call EXCEPT !.pc = "returned"]]
               /\ last' = Outcome("update", "ok", 1)
          ELSE /\ calls' = [calls EXCEPT ![c] = call]
               /\ last' = last
  /\ UNCHANGED <<fn, openPools, pool, schema, dbType, table, clock, held, leaked>>

\* one iteration of the loop: the UPDATE built from records[i], then count++;
\* after the last record the call returns count
UpdateWriteBack(c) ==
  /\ calls[c].pc = "write"
  /\ LET k == calls[c]
         w == updateWrite(table, Hyb, HasSchema, clock, k.records[k.i], k.data)
     IN IF pool = NoPool \/ ~w.ok
        THEN /\ calls' = [calls EXCEPT ![c].pc = "threw"]
             /\ last' = Outcome("update", IF pool = NoPool THEN "typeError" ELSE "dbError",
                                IF pool = NoPool THEN k.i ELSE k.i + 1)
             /\ table' = table
        ELSE /\ table' = w.tbl
             /\ calls' = [calls EXCEPT ![c].count = k.count + 1,
                                       ![c].i = k.i + 1,
                                       ![c].pc = IF k.i = Len(k.records)
                                                 THEN "returned" ELSE "write"]
             /\ last' = IF k.i = Len(k.records)
                        THEN Outcome("update", "ok", k.i + 1) ELSE last
  /\ UNCHANGED <<fn, openPools, pool, schema, dbType, clock, held, leaked>>

ConcUpdateGet == \E c \in Callers : UpdateGet(c)
ConcUpdateWriteBack == \E c \in Callers : UpdateWriteBack(c)

\* the schema is given before connect, as the driver is meant to be used
NextConc ==
  \/ (pool = NoPool /\ SetSchema)
  \/ Connect \/ Set \/ Tick
  \/ ConcUpdateGet \/ ConcUpdateWriteBack

SpecConc == Init /\ [][NextConc]_vars

\* ================================================================== claims
Connected == pool # NoPool

\* the operations that begin with this.ensureConnected()
GuardedCall ==
  \/ Set \/ Get \/ GetOne \/ Update \/ Delete \/ Exists \/ Count
  \/ ExecuteRaw \/ Clear \/ Drop \/ Vacuum \/ Analyze \/ BeginTransaction

\* the positions of the rows whose document get(query) returns, in get order
MatchIdx(tbl, hyb, query) ==
  LET all == get(tbl, hyb, EmptyDoc).recs
  IN SelectSeq([i \in 1..Len(all) |-> i],
               LAMBDA i : DOMAIN query = {} \/ matchesQuery(all[i], query))
Range(s) == {s[i] : i \in 1..Len(s)}
\* the rows at the positions outside `gone`, in order
Without(rows, gone) ==
  LET keep == SelectSeq([i \in 1..Len(rows) |-> i], LAMBDA i : i \notin gone)
  IN [j \in 1..Len(keep) |-> rows[keep[j]]]

\* C1: while the driver is Disconnected (pool is null), every operation that
\* begins with ensureConnected ends with the not-connected error, sends no
\* statement, and leaves the stored rows (and the driver) as they were.
C1_NotConnectedNoIO ==
  [][(pool = NoPool /\ GuardedCall) =>
       /\ last'.status = "notConnected"
       /\ last'.stmts = 0
       /\ table' = table
       /\ pool' = NoPool]_vars

\* a Disconnected driver over a table that holds rows has just refused a call
C1_Witness ==
  /\ pool = NoPool
  /\ Len(table.rows) > 0
  /\ last.status = "notConnected"

\* C2: update(criteria, patch) leaves _id and _createdAt of every record, as
\* get returns it, equal to what get returned before the update, for every
\* patch, including one that names _id or _createdAt.
C2_UpdatePreservesReserved ==
  \A query \in Queries, data \in Patches :
    LET r == update(table, Hyb, HasSchema, clock, query, data, 0)
        before == get(table, Hyb, EmptyDoc)
        after == get(r.tbl, Hyb, EmptyDoc)
    IN (Connected /\ r.status = "ok" /\ before.ok) =>
         /\ Len(after.recs) = Len(before.recs)
         /\ \A i \in 1..Len(before.recs) : \A k \in {"_id", "_createdAt"} :
              Field(after.recs[i], k) = Field(before.recs[i], k)

\* C3: exists(criteria) is true exactly when get(criteria) is non-empty.
C3_ExistsIffGetNonEmpty ==
  \A query \in Queries :
    LET e == exists(table, Hyb, query)
        g == get(table, Hyb, query)
    IN (Connected /\ e.ok /\ g.ok) => (e.value <=> Len(g.recs) > 0)

\* C4: the record set returns has a non-empty _id, _createdAt equal to
\* _updatedAt, and getOne({_id}) issued next returns an equal document.
C4_SetThenGetOneEqual ==
  \A data \in DataDocs, id \in Ids :
    LET r == set(table, Hyb, HasSchema, clock, data, id, 0)
    IN (Connected /\ r.status = "ok") =>
         LET g == getOne(r.tbl, Hyb, [k \in {"_id"} |-> r.ret["_id"]])
         IN /\ r.ret["_id"] \in Ids
            /\ r.ret["_createdAt"] = r.ret["_updatedAt"]
            /\ g.ok /\ g.found
            /\ g.rec = r.ret

\* C5: after update with a patch that names no reserved field, every matched
\* record read back has the patch's values, its other non-reserved fields
\* unchanged, and an _updatedAt strictly greater than before.
C5_UpdateRoundTrip ==
  \A query \in Queries, data \in Patches :
    LET r == update(table, Hyb, HasSchema, clock, query, data, 0)
        before == get(table, Hyb, EmptyDoc)
        after == get(r.tbl, Hyb, EmptyDoc)
        hit == Range(MatchIdx(table, Hyb, query))
    IN (Connected /\ r.status = "ok" /\ DOMAIN data \cap ReservedKeys = {}) =>
         \A i \in hit :
           /\ \A k \in DOMAIN data : Field(after.recs[i], k) = data[k]
           /\ \A k \in DOMAIN before.recs[i] \ (DOMAIN data \cup ReservedKeys) :
                Field(after.recs[i], k) = before.recs[i][k]
           /\ TimeOf(Field(after.recs[i], "_updatedAt"))
                > TimeOf(Field(before.recs[i], "_updatedAt"))

\* C6: delete(criteria) removes exactly the records get(criteria) returned,
\* returns the number of rows it removed, leaves the others unchanged, and a
\* get(criteria) issued next is empty.
C6_DeleteExactlyMatches ==
  \A query \in Queries :
    LET r == delete(table, Hyb, query, 0)
        hit == Range(MatchIdx(table, Hyb, query))
    IN (Connected /\ r.status = "ok") =>
         /\ r.tbl.rows = Without(table.rows, hit)
         /\ r.count = Len(table.rows) - Len(r.tbl.rows)
         /\ get(r.tbl, Hyb, query).recs = <<>>

\* C8: a connect whose provisioning fails leaves a Disconnected driver
\* Disconnected, so that document operations still fail not-connected.
C8_FailedConnectStaysDisconnected ==
  [][(pool = NoPool /\ Connect /\ last'.status # "ok") =>
       (pool' = NoPool /\ ~ensureConnected(pool'))]_vars

\* C10: when the write for the i-th matched record fails, update ends in an
\* error with the first i-1 matched records holding the patch's values and the
\* i-th and later ones (and every other row) unchanged; delete ends in an
\* error with the first i-1 matched records removed and the rest present.
C10_PartialFailure ==
  \A query \in Queries, failAt \in 0..(MaxRows + 1) :
    LET m == MatchIdx(table, Hyb, query)
        d == delete(table, Hyb, query, failAt)
    IN /\ \A data \in Patches :
            LET u == update(table, Hyb, HasSchema, clock, query, data, failAt)
                after == get(u.tbl, Hyb, EmptyDoc)
            IN (Connected /\ u.failedWrite > 0) =>
                 /\ u.status = "dbError"
                 /\ Len(u.tbl.rows) = Len(table.rows)
                 /\ \A j \in 1..Len(m) :
                      IF j < u.failedWrite
                      THEN \A k \in DOMAIN data \ ReservedKeys :
                             Field(after.recs[m[j]], k) = data[k]
                      ELSE u.tbl.rows[m[j]] = table.rows[m[j]]
                 /\ \A i \in 1..Len(table.rows) :
                      i \notin Range(m) => u.tbl.rows[i] = table.rows[i]
       /\ (Connected /\ d.failedWrite > 0) =>
            /\ d.status = "dbError"
            /\ d.tbl.rows = Without(table.rows, {m[j] : j \in 1..(d.failedWrite - 1)})

\* C7: in hybrid mode splitData puts a key into the schema columns exactly
\* when the schema names it, puts every other non-reserved key into the extras
\* blob, and mergeData of the row written from the split gives back every
\* field of the document with its value.
C7_SplitMergeRoundTrip ==
  (fn.name = "splitData" /\ fn.done) =>
    /\ \A k \in DOMAIN fn.arg :
         k \in DOMAIN fn.out.split.schemaData <=> k \in SchemaFields
    /\ \A k \in DOMAIN fn.arg \ (SchemaFields \cup ReservedKeys) :
         k \in DOMAIN fn.out.split.extraData
    /\ fn.out.written
    /\ \A k \in DOMAIN fn.arg : Field(fn.out.merged, k) = fn.arg[k]

\* C9: a tag that contains "number" and "bigint" in any letter case, and none
\* of string, text, email, url, char, uuid, maps to BIGINT.
C9_BigintMapsToBIGINT ==
  (fn.name = "mapHawiahTypeToSQL" /\ fn.done) =>
    LET t == toUpperCase(fn.arg.tag)
    IN (/\ includes(t, S_NUMBER) /\ includes(t, S_BIGINT)
        /\ ~includes(t, S_STRING) /\ ~includes(t, S_TEXT) /\ ~includes(t, S_EMAIL)
        /\ ~includes(t, S_URL) /\ ~includes(t, S_CHAR) /\ ~includes(t, S_UUID))
       => fn.out = "BIGINT"

\* C11: a client checked out by beginTransaction is back in the pool once the
\* call that ends its transaction has returned or thrown: commit and rollback
\* release the client they were given whether their statement succeeds or
\* fails, and a beginTransaction whose BEGIN fails keeps no client checked out.
C11_TransactionReleasesClient ==
  [][/\ (Commit \/ Rollback) => held' = held - 1
     /\ BeginTransaction => leaked' = leaked]_vars

\* the document get returns for the row whose _id is id (EmptyDoc: no such row)
DocOf(tbl, hyb, id) ==
  LET hit == SelectSeq(get(tbl, hyb, EmptyDoc).recs, LAMBDA rec : Field(rec, "_id") = id)
  IN IF Len(hit) > 0 THEN hit[1] ELSE EmptyDoc
RowOf(tbl, id) == SelectSeq(tbl.rows, LAMBDA r : r.id = id)

\* C12: update is not isolated from concurrent writers. Every write-back of a
\* call stores the snapshot its get returned with the patch laid over it,
\* whatever the row holds by then (so a change another call committed after
\* the snapshot is overwritten), touches no row outside the snapshot (a row
\* inserted since is not updated), and the call counts one per snapshot
\* record (so it returns the snapshot's length).
C12_UpdateNotIsolated ==
  [][\A c \in Callers :
       (calls[c].pc = "write" /\ calls'[c] # calls[c] /\ calls'[c].pc # "threw") =>
         LET k == calls[c]
             rec == k.records[k.i]
             id == Field(rec, "_id")
             stale == Override(rec, k.data)
             after == DocOf(table', Hyb, id)
         IN /\ \A key \in DOMAIN stale \ ReservedKeys :
                 Field(after, key) = stale[key]
            /\ \A j \in 1..Len(table.rows) :
                 table.rows[j].id # id => table'.rows[j] = table.rows[j]
            /\ Len(table'.rows) = Len(table.rows)
            /\ calls'[c].count = k.count + 1
            /\ calls'[c].pc = "returned" => calls'[c].count = Len(k.records)]_vars

\* both calls matched the same single record with patches on different fields
\* and both returned 1, yet the record lacks the change one of them made; and
\* a second record, inserted after the calls read (it matches their criteria
\* and is in neither snapshot) and before they wrote, carries neither patch
C12_Witness ==
  /\ \A c \in Callers :
       /\ calls[c].pc = "returned" /\ calls[c].count = 1
       /\ calls[c].query = EmptyDoc
       /\ Field(calls[c].records[1], "_id") = Field(calls[1].records[1], "_id")
  /\ DOMAIN calls[1].data \cap DOMAIN calls[2].data = {}
  /\ Len(table.rows) = 2
  /\ LET id == Field(calls[1].records[1], "_id")
         doc == DocOf(table, Hyb, id)
     IN /\ \E c \in Callers : \E key \in DOMAIN calls[c].data :
             Field(doc, key) # calls[c].data[key]
        /\ \E j \in 1..Len(table.rows) :
             /\ table.rows[j].id # id
             /\ TimeOf(table.rows[j].createdAt) < TimeOf(RowOf(table, id)[1].updatedAt)
             /\ \A c \in Callers : \A key \in DOMAIN calls[c].data :
                  Field(DocOf(table, Hyb, table.rows[j].id), key) # calls[c].data[key]

\* C13: mergeData never fails on the extras blob: an object is laid over the
\* typed columns, its value winning on a shared key, and a value that is
\* neither an object nor a parseable string (null, a number, an unparseable
\* string) counts as an empty object, so the typed columns are returned alone.
C13_MergeDataNeverFails ==
  (fn.name = "mergeData" /\ fn.done) =>
    LET row == fn.arg
        ex == row.extras
    IN /\ ~fn.out.threw
       /\ ex.kind = "object" =>
            /\ DOMAIN fn.out.doc = DOMAIN row.rest \cup DOMAIN ex.obj
            /\ \A k \in DOMAIN ex.obj : fn.out.doc[k] = ex.obj[k]
            /\ \A k \in DOMAIN row.rest \ DOMAIN ex.obj : fn.out.doc[k] = row.rest[k]
       /\ (ex.kind \in {"null", "number"} \/ (ex.kind = "string" /\ ~ex.parses)) =>
            fn.out.doc = row.rest

\* C14: the driver holds at most one open pool, and once disconnect has
\* completed (this.pool is null) every pool that connect created has been
\* ended.
C14_AtMostOneOpenPool ==
  /\ openPools <= 1
  /\ pool = NoPool => openPools = 0

\* C15: while the driver is Connected, the mode its document operations build
\* their statements for (hybrid when a schema is set and dbType is 'sql',
\* document otherwise) is the mode the table was provisioned in.
C15_ModeMatchesProvisioning ==
  (Connected /\ table.layout # "none") =>
    table.layout = (IF Hyb THEN "hybrid" ELSE "doc")

====
